---------------------------- MODULE Spec2Model ----------------------------
(***************************************************************************)
(* Model of installer/generate_background.py: the command-line entry, the  *)
(* fallback chain of generate_background / generate_background_native and  *)
(* the dependency-free PNG encoder create_png_native / create_png.         *)
(*                                                                         *)
(* Byte strings are sequences of integers 0..255.  Paths are sequences of  *)
(* one-character strings.                                                  *)
(***************************************************************************)
EXTENDS Integers, Sequences, FiniteSets, TLC

(***************************************************************************)
(* Bounds of the model.                                                    *)
(***************************************************************************)
\* Largest width and height drawn for the pure encoder create_png.
MaxDim == 3

(***************************************************************************)
(* Integer and byte helpers.                                               *)
(***************************************************************************)
Min(a, b) == IF a < b THEN a ELSE b

Range(s) == {s[i] : i \in 1..Len(s)}

Pow2(n) == 2 ^ n

\* bytes * n : n copies of a byte string, one after the other.
RECURSIVE Repeat(_, _)
Repeat(s, n) == IF n <= 0 THEN <<>> ELSE s \o Repeat(s, n - 1)

\* F(x), with x evaluated before F is entered.  TLC evaluates an
\* operator's arguments on demand, inside the operator's body; a fold over
\* a byte string written with Call evaluates each partial result first and
\* keeps the nesting of the evaluation logarithmic in the length.
Call(F(_), x) == CHOOSE y \in {F(v) : v \in {x}} : TRUE

\* Bit i (0 = least significant) of a natural.
Bit(a, i) == (a \div Pow2(i)) % 2

\* Exclusive or of two 4-bit numbers, bit by bit.
XorBit(x, y) == IF x = y THEN 0 ELSE 1

Xor4 ==
  [a \in 0..15 |-> [b \in 0..15 |->
      XorBit(Bit(a, 0), Bit(b, 0))
    + 2 * XorBit(Bit(a, 1), Bit(b, 1))
    + 4 * XorBit(Bit(a, 2), Bit(b, 2))
    + 8 * XorBit(Bit(a, 3), Bit(b, 3))]]

\* Exclusive or of two bytes, four bits at a time.
XorByte(x, y) == (16 * Xor4[x \div 16][y \div 16]) + Xor4[x % 16][y % 16]

(***************************************************************************)
(* A 32-bit word is kept as its four bytes, most significant first: the    *)
(* checksums reach 2^32-1, and every one of them leaves the encoder as     *)
(* four big-endian bytes.                                                  *)
(***************************************************************************)
XorWord(a, b) ==
  << XorByte(a[1], b[1]), XorByte(a[2], b[2]), XorByte(a[3], b[3]), XorByte(a[4], b[4]) >>

\* word >> 1
Shr1(a) ==
  << a[1] \div 2,
     (128 * (a[1] % 2)) + (a[2] \div 2),
     (128 * (a[2] % 2)) + (a[3] \div 2),
     (128 * (a[3] % 2)) + (a[4] \div 2) >>

\* word >> 8
Shr8(a) == << 0, a[1], a[2], a[3] >>

AllOnes == << 255, 255, 255, 255 >>

(***************************************************************************)
(* struct.pack('>I', n): four bytes, most significant first.  The call     *)
(* raises struct.error when n is outside 0..2^32-1.                        *)
(***************************************************************************)
PackOk(n) == n >= 0 /\ (n \div 65536) <= 65535

PackU32(n) ==
  << (n \div 16777216) % 256, (n \div 65536) % 256, (n \div 256) % 256, n % 256 >>

\* struct.pack('>IIBBBBB', w, h, 8, 2, 0, 0, 0)
PackIHDR(w, h, depth, ctype, comp, filt, lace) ==
  PackU32(w) \o PackU32(h) \o << depth, ctype, comp, filt, lace >>

(***************************************************************************)
(* zlib.crc32: the CRC-32 of ISO 3309 (reflected polynomial EDB88320,      *)
(* initial value and final exclusive or FFFFFFFF), table driven.  The      *)
(* value is the word the code packs with '>I' after "& 0xffffffff".        *)
(***************************************************************************)
CrcPoly == << 237, 184, 131, 32 >>

\* Entry n of the table: n shifted right eight times, the polynomial
\* folded in whenever a one leaves at the low end.
RECURSIVE CrcEntry(_, _)
CrcEntry(n, k) ==
  IF k = 0 THEN << 0, 0, 0, n >>
  ELSE LET c == CrcEntry(n, k - 1)
       IN IF c[4] % 2 = 1 THEN XorWord(CrcPoly, Shr1(c)) ELSE Shr1(c)

CrcTable == [n \in 0..255 |-> CrcEntry(n, 8)]

\* One byte into the register.
CrcStep(crc, byte) == XorWord(CrcTable[XorByte(crc[4], byte)], Shr8(crc))

\* The register crc after bytes lo..hi of data, the range halved.
RECURSIVE CrcUpdate(_, _, _, _)
CrcUpdate(crc, data, lo, hi) ==
  IF lo > hi THEN crc
  ELSE IF lo = hi THEN CrcStep(crc, data[lo])
  ELSE LET mid == (lo + hi) \div 2
           Rest(c) == CrcUpdate(c, data, mid + 1, hi)
       IN Call(Rest, CrcUpdate(crc, data, lo, mid))

crc32(data) == XorWord(CrcUpdate(AllOnes, data, 1, Len(data)), AllOnes)

(***************************************************************************)
(* Adler-32 (RFC 1950), the check value that ends a zlib stream, as its    *)
(* four big-endian bytes.                                                  *)
(***************************************************************************)
AdlerBase == 65521

\* One byte into the two sums.
AdlerStep(sums, byte) ==
  LET a2 == (sums.a + byte) % AdlerBase
  IN [a |-> a2, b |-> (sums.b + a2) % AdlerBase]

\* The sums after bytes lo..hi of data, the range halved.
RECURSIVE AdlerUpdate(_, _, _, _)
AdlerUpdate(sums, data, lo, hi) ==
  IF lo > hi THEN sums
  ELSE IF lo = hi THEN AdlerStep(sums, data[lo])
  ELSE LET mid == (lo + hi) \div 2
           Rest(t) == AdlerUpdate(t, data, mid + 1, hi)
       IN Call(Rest, AdlerUpdate(sums, data, lo, mid))

adler32(data) ==
  LET sums == AdlerUpdate([a |-> 1, b |-> 0], data, 1, Len(data))
  IN << sums.b \div 256, sums.b % 256, sums.a \div 256, sums.a % 256 >>

(***************************************************************************)
(* zlib.compress(data, level): a zlib stream (RFC 1950) holding one final  *)
(* deflate block (RFC 1951).  For levels 4..9 zlib runs deflate_slow (lazy *)
(* matching) with the parameters of its configuration table; for inputs as *)
(* short as the scanlines drawn here it emits a single block coded with    *)
(* the fixed Huffman codes.  Positions in the data count from 0, so the    *)
(* byte at position p is data[p + 1].                                      *)
(***************************************************************************)
MIN_MATCH == 3

MAX_MATCH == 258

\* good_length, max_lazy, nice_length, max_chain of zlib's levels 4..9.
configuration_table ==
  [l \in 4..9 |->
     CASE l = 4 -> [good |-> 4,  lazy |-> 4,   nice |-> 16,  chain |-> 16]
       [] l = 5 -> [good |-> 8,  lazy |-> 16,  nice |-> 32,  chain |-> 32]
       [] l = 6 -> [good |-> 8,  lazy |-> 16,  nice |-> 128, chain |-> 128]
       [] l = 7 -> [good |-> 8,  lazy |-> 32,  nice |-> 128, chain |-> 256]
       [] l = 8 -> [good |-> 32, lazy |-> 128, nice |-> 258, chain |-> 1024]
       [] l = 9 -> [good |-> 32, lazy |-> 258, nice |-> 258, chain |-> 4096]]

\* A literal byte, or a match of len bytes found dist bytes back.
Lit(b) == [lit |-> b, len |-> 0, dist |-> 0]

Match(l, d) == [lit |-> 0, len |-> l, dist |-> d]

\* The number of leading bytes on which the strings at p and s agree,
\* at most MAX_MATCH and at most what is left of the data after s.
MatchLen(data, p, s) ==
  LET limit == Min(MAX_MATCH, Len(data) - s)
      differ == {l \in 0..(limit - 1) : data[p + l + 1] # data[s + l + 1]}
  IN IF differ = {} THEN limit
     ELSE CHOOSE l \in differ : \A m \in differ : l <= m

(***************************************************************************)
(* longest_match: walk the earlier strings that start with the same three  *)
(* bytes, most recent first, at most chain of them, keeping the first that *)
(* is longer than every one before it, and stop at a match of nice bytes.  *)
(* Position 0 is never a candidate (its hash head is NIL).  start = 0      *)
(* says that no match longer than best was found.                          *)
(***************************************************************************)
RECURSIVE ScanChain(_, _, _, _, _, _, _)
ScanChain(data, s, p, chain, nice, best, start) ==
  IF p < 1 \/ chain = 0 THEN [len |-> best, start |-> start]
  ELSE LET l == MatchLen(data, p, s)
       IN IF l < MIN_MATCH THEN ScanChain(data, s, p - 1, chain, nice, best, start)
          ELSE IF l > best
               THEN IF l >= nice THEN [len |-> l, start |-> p]
                    ELSE ScanChain(data, s, p - 1, chain - 1, nice, l, p)
               ELSE ScanChain(data, s, p - 1, chain - 1, nice, best, start)

longest_match(data, s, prev_length, cfg) ==
  ScanChain(data, s, s - 1,
            IF prev_length >= cfg.good THEN cfg.chain \div 4 ELSE cfg.chain,
            Min(cfg.nice, Len(data) - s), prev_length, 0)

(***************************************************************************)
(* deflate_slow: at each position look for a match; emit the match found   *)
(* at the position before when the one found here is no longer, and        *)
(* otherwise emit the byte before as a literal.                            *)
(***************************************************************************)
RECURSIVE deflate_slow(_, _, _, _, _, _, _)
deflate_slow(data, cfg, s, match_length, match_start, match_available, toks) ==
  IF s >= Len(data)
  THEN IF match_available THEN Append(toks, Lit(data[s])) ELSE toks
  ELSE LET prev_length == match_length
           prev_match == match_start
           found == IF Len(data) - s >= MIN_MATCH /\ prev_length < cfg.lazy
                    THEN longest_match(data, s, prev_length, cfg)
                    ELSE [len |-> prev_length, start |-> 0]
           ml == IF found.start # 0 THEN found.len ELSE MIN_MATCH - 1
           ms == IF found.start # 0 THEN found.start ELSE match_start
       IN IF prev_length >= MIN_MATCH /\ ml <= prev_length
          THEN deflate_slow(data, cfg, s + prev_length - 1, MIN_MATCH - 1, ms, FALSE,
                            Append(toks, Match(prev_length, s - 1 - prev_match)))
          ELSE IF match_available
               THEN deflate_slow(data, cfg, s + 1, ml, ms, TRUE,
                                 Append(toks, Lit(data[s])))
               ELSE deflate_slow(data, cfg, s + 1, ml, ms, TRUE, toks)

\* RFC 1951 3.2.5: base value and extra bits of length codes 257..285 and
\* of distance codes 0..29.
LengthBase ==
  << 3, 4, 5, 6, 7, 8, 9, 10, 11, 13, 15, 17, 19, 23, 27, 31, 35, 43, 51, 59,
     67, 83, 99, 115, 131, 163, 195, 227, 258 >>

LengthExtra ==
  << 0, 0, 0, 0, 0, 0, 0, 0, 1, 1, 1, 1, 2, 2, 2, 2, 3, 3, 3, 3,
     4, 4, 4, 4, 5, 5, 5, 5, 0 >>

DistBase ==
  << 1, 2, 3, 4, 5, 7, 9, 13, 17, 25, 33, 49, 65, 97, 129, 193, 257, 385, 513,
     769, 1025, 1537, 2049, 3073, 4097, 6145, 8193, 12289, 16385, 24577 >>

DistExtra ==
  << 0, 0, 0, 0, 1, 1, 2, 2, 3, 3, 4, 4, 5, 5, 6, 6, 7, 7, 8, 8,
     9, 9, 10, 10, 11, 11, 12, 12, 13, 13 >>

\* The index of the code whose range holds v.
CodeIndex(base, v) ==
  CHOOSE k \in 1..Len(base) : base[k] <= v /\ (k = Len(base) \/ base[k + 1] > v)

\* n bits of v, most significant first (Huffman codes) and least
\* significant first (every other field).
BitsMSB(v, n) == [i \in 1..n |-> Bit(v, n - i)]

BitsLSB(v, n) == [i \in 1..n |-> Bit(v, i - 1)]

\* RFC 1951 3.2.6: the fixed Huffman code of a literal/length symbol.
FixedCode(sym) ==
  IF sym <= 143 THEN BitsMSB(48 + sym, 8)
  ELSE IF sym <= 255 THEN BitsMSB(400 + (sym - 144), 9)
  ELSE IF sym <= 279 THEN BitsMSB(sym - 256, 7)
  ELSE BitsMSB(192 + (sym - 280), 8)

TokenBits(t) ==
  IF t.len = 0 THEN FixedCode(t.lit)
  ELSE LET i == CodeIndex(LengthBase, t.len)
           j == CodeIndex(DistBase, t.dist)
       IN FixedCode(256 + i) \o BitsLSB(t.len - LengthBase[i], LengthExtra[i])
          \o BitsMSB(j - 1, 5) \o BitsLSB(t.dist - DistBase[j], DistExtra[j])

RECURSIVE TokensBits(_, _)
TokensBits(toks, i) ==
  IF i > Len(toks) THEN <<>> ELSE TokenBits(toks[i]) \o TokensBits(toks, i + 1)

\* Bits to bytes, the first bit in the least significant place, the last
\* byte filled with zero bits.
PackBits(bits) ==
  [k \in 1..((Len(bits) + 7) \div 8) |->
     LET at(i) == IF (8 * (k - 1)) + i <= Len(bits) THEN bits[(8 * (k - 1)) + i] ELSE 0
     IN at(1) + (2 * at(2)) + (4 * at(3)) + (8 * at(4))
        + (16 * at(5)) + (32 * at(6)) + (64 * at(7)) + (128 * at(8))]

\* BFINAL = 1, BTYPE = 01 (fixed codes), the symbols, end of block (256).
deflate(data, level) ==
  PackBits(<< 1, 1, 0 >>
           \o TokensBits(deflate_slow(data, configuration_table[level], 0,
                                      MIN_MATCH - 1, 0, FALSE, <<>>), 1)
           \o FixedCode(256))

\* CMF = 78 (deflate, 32K window); FLG holds the level class in its two top
\* bits and makes CMF*256 + FLG a multiple of 31.
ZlibHeader(level) ==
  LET level_flags == IF level < 2 THEN 0 ELSE IF level < 6 THEN 1
                     ELSE IF level = 6 THEN 2 ELSE 3
      header == 30720 + (64 * level_flags)
      full == header + (31 - (header % 31))
  IN << full \div 256, full % 256 >>

compress(data, level) == ZlibHeader(level) \o deflate(data, level) \o adler32(data)

(***************************************************************************)
(* create_png and png_chunk, the encoder nested in create_png_native.      *)
(***************************************************************************)
\* The ASCII type tags b'IHDR', b'IDAT', b'IEND'.
IHDR == << 73, 72, 68, 82 >>

IDAT == << 73, 68, 65, 84 >>

IEND == << 73, 69, 78, 68 >>

\* b'\x89PNG\r\n\x1a\n'
signature == << 137, 80, 78, 71, 13, 10, 26, 10 >>

\* Faulty variant of png_chunk: the checksum taken over the payload alone.
png_chunk_crc_of_payload(chunk_type, data) ==
  PackU32(Len(data)) \o chunk_type \o data \o crc32(data)

png_chunk(chunk_type, data) ==
  LET chunk_len == PackU32(Len(data))
      chunk_crc == crc32(chunk_type \o data)
  IN chunk_len \o chunk_type \o data \o chunk_crc

\* Faulty variant of ihdr_data: height and width in each other's place.
ihdr_data_swapped(w, h) == PackIHDR(h, w, 8, 2, 0, 0, 0)

ihdr_data(w, h) == PackIHDR(w, h, 8, 2, 0, 0, 0)

\* Faulty variant of row: the channels in the order b, g, r.
row_bgr(w, r, g, b) == Repeat(<< b, g, r >>, w)

\* row = bytes([r, g, b]) * w
row(w, r, g, b) == Repeat(<< r, g, b >>, w)

\* for y in range(h): raw_data += b'\x00' + row
raw_data(w, h, r, g, b) == Repeat(<< 0 >> \o row(w, r, g, b), h)

\* Faulty variant of CompressLevel: zlib's default level.
DefaultLevel == 2 * 3

\* The level passed to zlib.compress.
CompressLevel == 9

compressed(w, h, r, g, b) == compress(raw_data(w, h, r, g, b), CompressLevel)

\* Faulty variant of create_png: the end marker left out.
create_png_no_iend(w, h, r, g, b) ==
  signature \o png_chunk(IHDR, ihdr_data(w, h))
            \o png_chunk(IDAT, compressed(w, h, r, g, b))

create_png(w, h, r, g, b) ==
  LET ihdr == png_chunk(IHDR, ihdr_data(w, h))
      idat == png_chunk(IDAT, compressed(w, h, r, g, b))
      iend == png_chunk(IEND, <<>>)
  IN signature \o ihdr \o idat \o iend

\* create_png raises instead of returning: struct.pack('>IIBBBBB', ...)
\* rejects a width or height outside 0..2^32-1 (struct.error).
create_png_raises(w, h) == ~(PackOk(w) /\ PackOk(h))

(***************************************************************************)
(* Strings of the command line and of paths: sequences of characters.      *)
(***************************************************************************)
DotPng == << ".", "p", "n", "g" >>

DotSvg == << ".", "s", "v", "g" >>

Digits == << "0", "1", "2", "3", "4", "5", "6", "7", "8", "9" >>

IsDigit(c) == \E i \in 1..10 : Digits[i] = c

DigitVal(c) == (CHOOSE i \in 1..10 : Digits[i] = c) - 1

\* The digits of an integer literal: the text without its sign.
Unsigned(t) ==
  IF Len(t) > 0 /\ t[1] \in {"+", "-"} THEN SubSeq(t, 2, Len(t)) ELSE t

\* int(text) returns (rather than raising ValueError): an optional sign and
\* one or more decimal digits.  Surrounding blanks and underscores between
\* digits, which int() also accepts, are not drawn.
IntOk(t) ==
  LET d == Unsigned(t)
  IN Len(d) > 0 /\ \A i \in 1..Len(d) : IsDigit(d[i])

RECURSIVE DecimalValue(_, _)
DecimalValue(d, n) ==
  IF n = 0 THEN 0 ELSE (10 * DecimalValue(d, n - 1)) + DigitVal(d[n])

\* int(text)
ParseInt(t) ==
  LET d == Unsigned(t)
      v == DecimalValue(d, Len(d))
  IN IF t[1] = "-" THEN 0 - v ELSE v

\* old occurs in s at index i.
OccursAt(s, old, i) ==
  /\ i + Len(old) - 1 <= Len(s)
  /\ \A k \in 1..Len(old) : s[i + k - 1] = old[k]

\* str.replace(old, new): every occurrence, left to right, not overlapping.
RECURSIVE ReplaceFrom(_, _, _, _)
ReplaceFrom(s, old, new, i) ==
  IF i > Len(s) THEN <<>>
  ELSE IF OccursAt(s, old, i) THEN new \o ReplaceFrom(s, old, new, i + Len(old))
  ELSE << s[i] >> \o ReplaceFrom(s, old, new, i + 1)

Replace(s, old, new) == ReplaceFrom(s, old, new, 1)

\* The index of the last "/" of a path, 0 when it has none.
LastSlash(p) ==
  LET at == {i \in 1..Len(p) : p[i] = "/"}
  IN IF at = {} THEN 0 ELSE CHOOSE i \in at : \A j \in at : j <= i

\* os.path.dirname: what precedes the last "/", trailing slashes dropped
\* unless it is slashes only.
RECURSIVE StripSlashes(_)
StripSlashes(h) ==
  IF Len(h) > 0 /\ h[Len(h)] = "/" THEN StripSlashes(SubSeq(h, 1, Len(h) - 1)) ELSE h

dirname(p) ==
  LET head == SubSeq(p, 1, LastSlash(p))
  IN IF \A i \in 1..Len(head) : head[i] = "/" THEN head ELSE StripSlashes(head)

\* os.path.basename
basename(p) == SubSeq(p, LastSlash(p) + 1, Len(p))

\* os.path.join(dir, name) for a relative name.
JoinPath(dir, name) ==
  IF dir = <<>> THEN name
  ELSE IF dir[Len(dir)] = "/" THEN dir \o name
  ELSE dir \o << "/" >> \o name

(***************************************************************************)
(* The inputs and the environment drawn by the model.                      *)
(***************************************************************************)
\* sys.argv[0]
Script == << "g", "b" >>

\* Output paths: the usual one, one without a directory, one without
\* '.png', one whose directory holds '.png' too, one that ends in it twice.
OutputPaths ==
  { << "d", "/", "b", "g" >> \o DotPng,
    << "b", "g" >> \o DotPng,
    << "d", "/", "b", "g" >>,
    << "d" >> \o DotPng \o << "/", "b", "g" >> \o DotPng,
    << "d", "/", "b" >> \o DotPng \o DotPng }

\* The directories that exist: the working directory, d and d.png.
Dirs == { <<>>, << "d" >>, << "d" >> \o DotPng }

\* Texts given for <width>, <height> and <app_y>.
WidthArgs == { << "1" >>, << "2" >>, << "-", "1" >>, << "x" >> }

HeightArgs == { << "1" >>, << "2" >>, << "x" >> }

AppYArgs == { << "5" >>, << "1", ".", "5" >> }

\* A complete command line: the script and its nine arguments.
FullArgv(path, w, h, y) ==
  << Script, path, w, h, << "2", "0" >>, y, << "3", "0" >>, << "6", "0" >>,
     << "4", "0" >>, << "5", "0" >> >>

Argvs ==
  { FullArgv(path, w, h, y) :
      path \in OutputPaths, w \in WidthArgs, h \in HeightArgs, y \in AppYArgs }
  \cup { Append(FullArgv(path, << "2" >>, << "1" >>, << "5" >>), << "7" >>) :
           path \in OutputPaths }
  \cup { SubSeq(FullArgv(path, << "2" >>, << "1" >>, << "5" >>), 1, n) :
           path \in OutputPaths, n \in {1, 2, 9} }

\* Colour channels drawn for the pure encoder.
Channels == {0, 137, 255}

(***************************************************************************)
(* The state of one run of the script.                                     *)
(***************************************************************************)
VARIABLES
  argv,           \* sys.argv
  pc,             \* where the run stands
  exit_status,    \* the process's exit status, NoExit while it runs
  error,          \* the exception that ended the run, "none" otherwise
  stdout,         \* what was printed, in order
  pil_available,  \* "unknown" until the import of PIL is tried
  output_path, width, height, geom,   \* arguments of generate_background
  bg,             \* bg_r, bg_g, bg_b of create_png_native
  svg_path, converted,                \* locals of generate_background_native
  fs,             \* the files: path -> content
  png_data,       \* local of create_png_native
  attempts,       \* history: the strategies tried, in order
  failed,         \* history: the strategies that failed
  opens,          \* history: opens of the output by create_png_native
  writes          \* history: the buffers create_png_native wrote

vars ==
  << argv, pc, exit_status, error, stdout, pil_available, output_path, width,
     height, geom, bg, svg_path, converted, fs, png_data, attempts, failed,
     opens, writes >>

NoExit == -1

NoGeom == [app_x |-> 0, app_y |-> 0, apps_x |-> 0, apps_y |-> 0,
           win_width |-> 0, win_height |-> 0]

\* A file's content: what it is, who wrote it, and its data (the bytes of a
\* natively encoded PNG, the numbers put into the SVG, the size rendered).
File(kind, by, data) == [kind |-> kind, by |-> by, data |-> data]

Exists(path) == path \in DOMAIN fs

\* open(path, 'w') succeeds: the directory of the path exists.
CanCreate(path) == dirname(path) \in Dirs

\* fs with the file at path written, and with it removed.
WriteFile(files, path, content) ==
  [q \in DOMAIN files \cup {path} |-> IF q = path THEN content ELSE files[q]]

RemoveFile(files, path) == [q \in DOMAIN files \ {path} |-> files[q]]

NoFiles == [q \in {} |-> File("empty", "nobody", <<>>)]

\* The run ends with an exception nobody catches: traceback, status 1.
Crash(exception) ==
  /\ error' = exception
  /\ exit_status' = 1
  /\ pc' = "exited"

Max(a, b) == IF a > b THEN a ELSE b

\* The numbers generate_background_native puts into svg_content.
svg_content ==
  LET arrow_x == geom.win_width \div 2
      arrow_start_y == geom.app_y + 95
      arrow_end_y == geom.apps_y - 55
      shaft_end_y == arrow_end_y - 2
      text_y == geom.apps_y + 80
  IN << width, height, arrow_x - 2, arrow_start_y,
        Max(0, shaft_end_y - arrow_start_y),
        arrow_x, shaft_end_y + 16, arrow_x - 11, shaft_end_y,
        arrow_x + 11, shaft_end_y, arrow_x, text_y >>

Init ==
  /\ argv \in Argvs
  /\ pc = "main"
  /\ exit_status = NoExit
  /\ error = "none"
  /\ stdout = <<>>
  /\ pil_available = "unknown"
  /\ output_path = <<>>
  /\ width = 0
  /\ height = 0
  /\ geom = NoGeom
  /\ bg = << 0, 0, 0 >>
  /\ svg_path = <<>>
  /\ converted = FALSE
  /\ fs = NoFiles
  /\ png_data = <<>>
  /\ attempts = <<>>
  /\ failed = {}
  /\ opens = 0
  /\ writes = <<>>

(***************************************************************************)
(* __main__: the argument count, then int() of the eight numbers, then the *)
(* call of generate_background.                                            *)
(***************************************************************************)
Main ==
  /\ pc = "main"
  /\ IF Len(argv) < 10
     THEN /\ stdout' = Append(stdout, "Usage")
          /\ exit_status' = 1
          /\ pc' = "exited"
          /\ UNCHANGED << error, output_path, width, height, geom >>
     ELSE IF \E i \in 3..10 : ~IntOk(argv[i])
     THEN /\ Crash("ValueError")
          /\ UNCHANGED << stdout, output_path, width, height, geom >>
     ELSE /\ output_path' = argv[2]
          /\ width' = ParseInt(argv[3])
          /\ height' = ParseInt(argv[4])
          /\ geom' = [app_x |-> ParseInt(argv[5]), app_y |-> ParseInt(argv[6]),
                      apps_x |-> ParseInt(argv[7]), apps_y |-> ParseInt(argv[8]),
                      win_width |-> ParseInt(argv[9]),
                      win_height |-> ParseInt(argv[10])]
          /\ pc' = "generate_background"
          /\ UNCHANGED << stdout, exit_status, error >>
  /\ UNCHANGED << argv, pil_available, bg, svg_path, converted, fs, png_data,
                  attempts, failed, opens, writes >>

(***************************************************************************)
(* generate_background: import PIL; an ImportError sends the call to       *)
(* generate_background_native.                                             *)
(***************************************************************************)
GenerateBackground ==
  /\ pc = "generate_background"
  /\ attempts' = Append(attempts, "pil")
  /\ \E installed \in BOOLEAN :
       /\ pil_available' = IF installed THEN "yes" ELSE "no"
       /\ failed' = IF installed THEN failed ELSE failed \cup {"pil"}
       /\ pc' = IF installed THEN "generate_with_pil" ELSE "write_svg"
  /\ UNCHANGED << argv, exit_status, error, stdout, output_path, width, height,
                  geom, bg, svg_path, converted, fs, png_data, opens, writes >>

\* generate_with_pil: draw, then img.save(output_path, 'PNG'), which raises
\* when the file cannot be written.
GenerateWithPil ==
  /\ pc = "generate_with_pil"
  /\ \E saved \in BOOLEAN :
       IF saved /\ CanCreate(output_path)
       THEN /\ fs' = WriteFile(fs, output_path, File("png", "pil", << width, height >>))
            /\ stdout' = Append(stdout, "Generated background with PIL")
            /\ exit_status' = 0
            /\ pc' = "done"
            /\ UNCHANGED << error, failed >>
       ELSE /\ Crash("OSError")
            /\ failed' = failed \cup {"pil"}
            /\ UNCHANGED << fs, stdout >>
  /\ UNCHANGED << argv, pil_available, output_path, width, height, geom, bg,
                  svg_path, converted, png_data, attempts, opens, writes >>

(***************************************************************************)
(* generate_background_native, up to the SVG file written.                 *)
(***************************************************************************)
SvgPathOf(path) == Replace(path, DotPng, DotSvg)

WriteSvg ==
  /\ pc = "write_svg"
  /\ svg_path' = SvgPathOf(output_path)
  /\ converted' = FALSE
  /\ IF CanCreate(svg_path')
     THEN /\ fs' = WriteFile(fs, svg_path', File("svg", "svg", svg_content))
          /\ pc' = "rsvg"
          /\ UNCHANGED << exit_status, error >>
     ELSE /\ Crash("FileNotFoundError")
          /\ UNCHANGED fs
  /\ UNCHANGED << argv, stdout, pil_available, output_path, width, height, geom,
                  bg, png_data, attempts, failed, opens, writes >>

(***************************************************************************)
(* subprocess.run(['rsvg-convert', ...], check=True): exit status 0, a     *)
(* nonzero exit (CalledProcessError), no such program (FileNotFoundError), *)
(* or a program that may not be executed (PermissionError).  The except    *)
(* clause names the second and the third.                                  *)
(***************************************************************************)
RsvgOutcomes == {"ok", "CalledProcessError", "FileNotFoundError", "PermissionError"}

RsvgCaught == {"CalledProcessError", "FileNotFoundError"}

RunRsvg ==
  /\ pc = "rsvg"
  /\ attempts' = Append(attempts, "rsvg")
  /\ \E outcome \in RsvgOutcomes :
       IF outcome = "ok"
       THEN /\ fs' = WriteFile(fs, output_path, File("png", "rsvg", << width, height >>))
            /\ converted' = TRUE
            /\ pc' = "qlmanage"
            /\ UNCHANGED << exit_status, error, failed >>
       ELSE IF outcome \in RsvgCaught
       THEN /\ failed' = failed \cup {"rsvg"}
            /\ pc' = "qlmanage"
            /\ UNCHANGED << exit_status, error, fs, converted >>
       ELSE /\ Crash(outcome)
            /\ failed' = failed \cup {"rsvg"}
            /\ UNCHANGED << fs, converted >>
  /\ UNCHANGED << argv, stdout, pil_available, output_path, width, height, geom,
                  bg, svg_path, png_data, opens, writes >>

(***************************************************************************)
(* if not converted: qlmanage -t -s max(width, height) -o tmp_dir svg_path *)
(* with a timeout; it writes <tmp_dir>/<name of the svg>.png.  The output  *)
(* is looked for at svg_path + '.png' and renamed to output_path.  A bare  *)
(* except swallows every failure.                                          *)
(***************************************************************************)
QlOutcomes == {"thumbnail", "nothing", "CalledProcessError", "FileNotFoundError",
               "TimeoutExpired"}

\* Faulty variant of RunQlmanage: "if not converted" left out.
RunQlmanageUnguarded ==
  /\ pc = "qlmanage"
  /\ IF FALSE
     THEN /\ pc' = "native"
          /\ UNCHANGED << fs, converted, attempts, failed >>
     ELSE /\ attempts' = Append(attempts, "qlmanage")
          /\ \E outcome \in QlOutcomes :
               LET tmp_dir == dirname(output_path)
                   ql_written == JoinPath(tmp_dir, basename(svg_path) \o DotPng)
                   ql_output == svg_path \o DotPng
                   after == IF outcome = "thumbnail"
                            THEN WriteFile(fs, ql_written,
                                           File("png", "qlmanage",
                                                << Max(width, height) >>))
                            ELSE fs
               IN IF outcome \in {"thumbnail", "nothing"} /\ ql_output \in DOMAIN after
                  THEN /\ fs' = WriteFile(RemoveFile(after, ql_output), output_path,
                                          after[ql_output])
                       /\ converted' = TRUE
                       /\ UNCHANGED failed
                  ELSE /\ fs' = after
                       /\ failed' = failed \cup {"qlmanage"}
                       /\ UNCHANGED converted
          /\ pc' = "native"
  /\ UNCHANGED << argv, exit_status, error, stdout, pil_available, output_path,
                  width, height, geom, bg, svg_path, png_data, opens, writes >>

RunQlmanage ==
  /\ pc = "qlmanage"
  /\ IF converted
     THEN /\ pc' = "native"
          /\ UNCHANGED << fs, converted, attempts, failed >>
     ELSE /\ attempts' = Append(attempts, "qlmanage")
          /\ \E outcome \in QlOutcomes :
               LET tmp_dir == dirname(output_path)
                   ql_written == JoinPath(tmp_dir, basename(svg_path) \o DotPng)
                   ql_output == svg_path \o DotPng
                   after == IF outcome = "thumbnail"
                            THEN WriteFile(fs, ql_written,
                                           File("png", "qlmanage",
                                                << Max(width, height) >>))
                            ELSE fs
               IN IF outcome \in {"thumbnail", "nothing"} /\ ql_output \in DOMAIN after
                  THEN /\ fs' = WriteFile(RemoveFile(after, ql_output), output_path,
                                          after[ql_output])
                       /\ converted' = TRUE
                       /\ UNCHANGED failed
                  ELSE /\ fs' = after
                       /\ failed' = failed \cup {"qlmanage"}
                       /\ UNCHANGED converted
          /\ pc' = "native"
  /\ UNCHANGED << argv, exit_status, error, stdout, pil_available, output_path,
                  width, height, geom, bg, svg_path, png_data, opens, writes >>

(***************************************************************************)
(* if not converted: create_png_native(output_path, width, height), in the *)
(* three steps of its body: the buffer is built, the file is opened, the   *)
(* buffer is written and the file closed.                                  *)
(***************************************************************************)
NativeAssemble ==
  /\ pc = "native"
  /\ IF converted
     THEN /\ pc' = "cleanup"
          /\ UNCHANGED << exit_status, error, png_data, attempts, failed >>
     ELSE /\ attempts' = Append(attempts, "native")
          /\ IF create_png_raises(width, height)
             THEN /\ Crash("struct.error")
                  /\ failed' = failed \cup {"native"}
                  /\ UNCHANGED png_data
             ELSE /\ png_data' = create_png(width, height, bg[1], bg[2], bg[3])
                  /\ pc' = "native_open"
                  /\ UNCHANGED << exit_status, error, failed >>
  /\ UNCHANGED << argv, stdout, pil_available, output_path, width, height, geom,
                  bg, svg_path, converted, fs, opens, writes >>

\* with open(output_path, 'wb') as f: the file is created or emptied.
NativeOpen ==
  /\ pc = "native_open"
  /\ IF CanCreate(output_path)
     THEN /\ fs' = WriteFile(fs, output_path, File("empty", "native", <<>>))
          /\ opens' = opens + 1
          /\ pc' = "native_write"
          /\ UNCHANGED << exit_status, error, failed >>
     ELSE /\ Crash("FileNotFoundError")
          /\ failed' = failed \cup {"native"}
          /\ UNCHANGED << fs, opens >>
  /\ UNCHANGED << argv, stdout, pil_available, output_path, width, height, geom,
                  bg, svg_path, converted, png_data, attempts, writes >>

\* Faulty variant of NativeWrite: the signature written first, the blocks
\* in a second write.
NativeWriteInPieces ==
  /\ pc = "native_write"
  /\ fs' = WriteFile(fs, output_path, File("png", "native", png_data))
  /\ writes' = writes \o << SubSeq(png_data, 1, 8), SubSeq(png_data, 9, Len(png_data)) >>
  /\ stdout' = Append(stdout, "Generated solid background")
  /\ pc' = "cleanup"
  /\ UNCHANGED << argv, exit_status, error, pil_available, output_path, width,
                  height, geom, bg, svg_path, converted, png_data, attempts,
                  failed, opens >>

\* f.write(png_data), the file closed, the message printed.
NativeWrite ==
  /\ pc = "native_write"
  /\ fs' = WriteFile(fs, output_path, File("png", "native", png_data))
  /\ writes' = Append(writes, png_data)
  /\ stdout' = Append(stdout, "Generated solid background")
  /\ pc' = "cleanup"
  /\ UNCHANGED << argv, exit_status, error, pil_available, output_path, width,
                  height, geom, bg, svg_path, converted, png_data, attempts,
                  failed, opens >>

\* if os.path.exists(svg_path): os.remove(svg_path); the message; the
\* script ends with status 0.
Cleanup ==
  /\ pc = "cleanup"
  /\ fs' = IF Exists(svg_path) THEN RemoveFile(fs, svg_path) ELSE fs
  /\ stdout' = Append(stdout, "Generated background")
  /\ exit_status' = 0
  /\ pc' = "done"
  /\ UNCHANGED << argv, error, pil_available, output_path, width, height, geom,
                  bg, svg_path, converted, png_data, attempts, failed, opens,
                  writes >>

Next ==
  \/ Main
  \/ GenerateBackground
  \/ GenerateWithPil
  \/ WriteSvg
  \/ RunRsvg
  \/ RunQlmanage
  \/ NativeAssemble
  \/ NativeOpen
  \/ NativeWrite
  \/ Cleanup

Spec == Init /\ [][Next]_vars

(***************************************************************************)
(* The encoder alone: create_png applied to every width and height up to   *)
(* MaxDim and every colour over Channels, inside create_png_native.        *)
(***************************************************************************)
InitPng ==
  /\ argv = <<>>
  /\ pc = "native"
  /\ exit_status = NoExit
  /\ error = "none"
  /\ stdout = <<>>
  /\ pil_available = "no"
  /\ output_path = << "b", "g" >> \o DotPng
  /\ width \in 1..MaxDim
  /\ height \in 1..MaxDim
  /\ geom = NoGeom
  /\ bg \in Channels \X Channels \X Channels
  /\ svg_path = <<>>
  /\ converted = FALSE
  /\ fs = NoFiles
  /\ png_data = <<>>
  /\ attempts = <<>>
  /\ failed = {}
  /\ opens = 0
  /\ writes = <<>>

NextPng == NativeAssemble

SpecPng == InitPng /\ [][NextPng]_vars

(***************************************************************************)
(* A PNG reader, written from the format (PNG specification, RFC 1950,     *)
(* RFC 1951) and not from the encoder: the block structure, inflate for    *)
(* stored and fixed-code blocks, and the scanline filter.                  *)
(***************************************************************************)
\* The big-endian number in bytes i..i+3 of buf.
ReadU32(buf, i) ==
  (16777216 * buf[i]) + (65536 * buf[i + 1]) + (256 * buf[i + 2]) + buf[i + 3]

\* The blocks that follow one another from offset i (counted from 1) to
\* the end of buf: each a length, a tag, as many payload bytes as the
\* length says, and a checksum.  ok is FALSE when the bytes left do not
\* make a whole block.
RECURSIVE ReadChunks(_, _)
ReadChunks(buf, i) ==
  IF i = Len(buf) + 1 THEN [ok |-> TRUE, chunks |-> <<>>]
  ELSE IF i + 11 > Len(buf) THEN [ok |-> FALSE, chunks |-> <<>>]
  ELSE LET n == ReadU32(buf, i)
       IN IF i + 11 + n > Len(buf) THEN [ok |-> FALSE, chunks |-> <<>>]
          ELSE LET rest == ReadChunks(buf, i + 12 + n)
                   chunk == [length |-> SubSeq(buf, i, i + 3),
                             type |-> SubSeq(buf, i + 4, i + 7),
                             data |-> SubSeq(buf, i + 8, i + 7 + n),
                             crc |-> SubSeq(buf, i + 8 + n, i + 11 + n)]
               IN [ok |-> rest.ok, chunks |-> << chunk >> \o rest.chunks]

HasSignature(buf) == Len(buf) >= 8 /\ SubSeq(buf, 1, 8) = signature

\* The blocks of a file: what follows the eight bytes of the signature.
FileChunks(buf) ==
  IF HasSignature(buf) THEN ReadChunks(buf, 9) ELSE [ok |-> FALSE, chunks |-> <<>>]

\* Bit k (from 0) of a byte string, the least significant bit of each byte
\* first; 0 past the end.
BitAt(z, k) == IF k \div 8 < Len(z) THEN Bit(z[(k \div 8) + 1], k % 8) ELSE 0

RECURSIVE ReadMSB(_, _, _)
ReadMSB(z, pos, n) ==
  IF n = 0 THEN 0 ELSE (2 * ReadMSB(z, pos, n - 1)) + BitAt(z, pos + n - 1)

RECURSIVE ReadLSB(_, _, _)
ReadLSB(z, pos, n) ==
  IF n = 0 THEN 0 ELSE BitAt(z, pos) + (2 * ReadLSB(z, pos + 1, n - 1))

\* The literal/length symbol coded at pos with the fixed codes, and the
\* number of bits of its code.
FixedSymbol(z, pos) ==
  LET c7 == ReadMSB(z, pos, 7)
      c8 == ReadMSB(z, pos, 8)
      c9 == ReadMSB(z, pos, 9)
  IN IF c7 <= 23 THEN [sym |-> 256 + c7, bits |-> 7]
     ELSE IF c8 <= 191 THEN [sym |-> c8 - 48, bits |-> 8]
     ELSE IF c8 <= 199 THEN [sym |-> 280 + (c8 - 192), bits |-> 8]
     ELSE [sym |-> 144 + (c9 - 400), bits |-> 9]

\* len bytes copied from dist bytes back, byte by byte (the copy may run
\* into the bytes it has just written).
CopyBack(out, len, dist) ==
  out \o [i \in 1..len |-> out[(Len(out) - dist) + ((i - 1) % dist) + 1]]

\* The symbols of a fixed-code block from pos on, appended to st.out, up to
\* the end-of-block symbol.  st is [ok, pos, out].
RECURSIVE InflateFixed(_, _)
InflateFixed(z, st) ==
  LET s == FixedSymbol(z, st.pos)
      p1 == st.pos + s.bits
      Go(next) == InflateFixed(z, next)
  IN IF p1 > 8 * Len(z) \/ s.sym > 285 THEN [ok |-> FALSE, pos |-> p1, out |-> st.out]
     ELSE IF s.sym < 256
          THEN Call(Go, [ok |-> TRUE, pos |-> p1, out |-> Append(st.out, s.sym)])
     ELSE IF s.sym = 256 THEN [ok |-> TRUE, pos |-> p1, out |-> st.out]
     ELSE LET i == s.sym - 256
              len == LengthBase[i] + ReadLSB(z, p1, LengthExtra[i])
              p2 == p1 + LengthExtra[i]
              j == ReadMSB(z, p2, 5) + 1
              p3 == p2 + 5
          IN IF j > 30 THEN [ok |-> FALSE, pos |-> p3, out |-> st.out]
             ELSE LET dist == DistBase[j] + ReadLSB(z, p3, DistExtra[j])
                      p4 == p3 + DistExtra[j]
                  IN IF dist > Len(st.out) \/ p4 > 8 * Len(z)
                     THEN [ok |-> FALSE, pos |-> p4, out |-> st.out]
                     ELSE Call(Go, [ok |-> TRUE, pos |-> p4,
                                    out |-> CopyBack(st.out, len, dist)])

\* A stored block: the rest of the byte skipped, LEN, its complement, and
\* LEN bytes as they are.
InflateStored(z, st) ==
  LET at == (st.pos + 7) \div 8
      len == z[at + 1] + (256 * z[at + 2])
      nlen == z[at + 3] + (256 * z[at + 4])
  IN IF at + 4 > Len(z) THEN [ok |-> FALSE, pos |-> st.pos, out |-> st.out]
     ELSE IF len + nlen # 65535 \/ at + 4 + len > Len(z)
          THEN [ok |-> FALSE, pos |-> st.pos, out |-> st.out]
     ELSE [ok |-> TRUE, pos |-> 8 * (at + 4 + len),
           out |-> st.out \o SubSeq(z, at + 5, at + 4 + len)]

\* The blocks of a deflate stream from st.pos on, up to the final one.
\* Blocks with dynamic codes (BTYPE = 10) are not read: ok is FALSE.
RECURSIVE InflateBlocks(_, _)
InflateBlocks(z, st) ==
  LET bfinal == BitAt(z, st.pos)
      btype == ReadLSB(z, st.pos + 1, 2)
      body == [ok |-> TRUE, pos |-> st.pos + 3, out |-> st.out]
      Go(next) == IF next.ok /\ bfinal = 0 THEN InflateBlocks(z, next) ELSE next
  IN IF st.pos + 3 > 8 * Len(z) THEN [ok |-> FALSE, pos |-> st.pos, out |-> st.out]
     ELSE IF btype = 1 THEN Call(Go, InflateFixed(z, body))
     ELSE IF btype = 0 THEN Call(Go, InflateStored(z, body))
     ELSE [ok |-> FALSE, pos |-> st.pos, out |-> st.out]

(***************************************************************************)
(* zlib.decompress: the two header bytes (method 8, window at most 32K, a  *)
(* multiple of 31, no preset dictionary), the deflate stream, and the      *)
(* Adler-32 of the data as the last four bytes.                            *)
(***************************************************************************)
Inflate(zs) ==
  IF Len(zs) < 6 THEN [ok |-> FALSE, data |-> <<>>]
  ELSE LET z == SubSeq(zs, 3, Len(zs))
           headerOk == /\ zs[1] % 16 = 8
                       /\ zs[1] \div 16 <= 7
                       /\ ((256 * zs[1]) + zs[2]) % 31 = 0
                       /\ Bit(zs[2], 5) = 0
           r == InflateBlocks(z, [ok |-> TRUE, pos |-> 0, out |-> <<>>])
           used == (r.pos + 7) \div 8
       IN IF headerOk /\ r.ok /\ used + 4 = Len(z)
             /\ SubSeq(z, used + 1, used + 4) = adler32(r.out)
          THEN [ok |-> TRUE, data |-> r.out]
          ELSE [ok |-> FALSE, data |-> <<>>]

\* The FLEVEL field of a zlib stream: the two top bits of its second byte.
ZlibLevelClass(zs) == zs[2] \div 64

\* The payloads of the IDAT blocks, one after the other.
RECURSIVE IdatPayload(_, _)
IdatPayload(chunks, i) ==
  IF i > Len(chunks) THEN <<>>
  ELSE (IF chunks[i].type = IDAT THEN chunks[i].data ELSE <<>>)
       \o IdatPayload(chunks, i + 1)

\* The image a file holds: the size its header declares and, per row and
\* column, the pixel; ok is FALSE when the file cannot be read as an 8-bit
\* true-colour image without interlace.
Decode(buf) ==
  LET f == FileChunks(buf)
      bad == [ok |-> FALSE, width |-> 0, height |-> 0, pixels |-> <<>>]
  IN IF ~f.ok \/ Len(f.chunks) < 3 THEN bad
     ELSE LET hdr == f.chunks[1]
          IN IF hdr.type # IHDR \/ Len(hdr.data) # 13
                \/ SubSeq(hdr.data, 9, 13) # << 8, 2, 0, 0, 0 >> THEN bad
             ELSE LET w == ReadU32(hdr.data, 1)
                      h == ReadU32(hdr.data, 5)
                      stride == 1 + (3 * w)
                      raw == Inflate(IdatPayload(f.chunks, 1))
                  IN IF ~raw.ok \/ Len(raw.data) # h * stride
                        \/ \E y \in 0..(h - 1) : raw.data[(y * stride) + 1] # 0
                     THEN bad
                     ELSE [ok |-> TRUE, width |-> w, height |-> h,
                           pixels |->
                             [y \in 1..h |-> [x \in 1..w |->
                                LET o == ((y - 1) * stride) + 1 + (3 * (x - 1))
                                IN << raw.data[o + 1], raw.data[o + 2],
                                      raw.data[o + 3] >>]]]

(***************************************************************************)
(* Properties of the encoder, checked under SpecPng.                       *)
(***************************************************************************)
\* create_png has returned: its buffer is in png_data.
Encoded == pc = "native_open"

\* The tags of the blocks of a file, in order.
ChunkTypes(buf) ==
  LET f == FileChunks(buf) IN [i \in 1..Len(f.chunks) |-> f.chunks[i].type]

\* C1: decoding the buffer create_png(width, height, r, g, b) returns
\* (blocks parsed, IDAT inflated, filter bytes stripped) gives a grid of
\* exactly width*height pixels, every one equal to (r, g, b).
C1_RoundTrip ==
  Encoded =>
    LET d == Decode(png_data)
    IN /\ d.ok
       /\ d.width = width /\ d.height = height
       /\ Len(d.pixels) = height
       /\ \A y \in 1..height : Len(d.pixels[y]) = width
       /\ \A y \in 1..height : \A x \in 1..width : d.pixels[y][x] = bg

C1_Witness ==
  /\ Encoded /\ width = 2 /\ height = 2 /\ bg = << 255, 0, 137 >>
  /\ Decode(png_data).ok

\* C2: the buffer begins with the signature 89 50 4E 47 0D 0A 1A 0A, and
\* what follows is exactly IHDR, one or more IDAT, then IEND as the last
\* bytes, with nothing before, between or after them.
C2_Layout ==
  Encoded =>
    LET t == ChunkTypes(png_data)
    IN /\ Len(png_data) >= 8
       /\ SubSeq(png_data, 1, 8) = << 137, 80, 78, 71, 13, 10, 26, 10 >>
       /\ FileChunks(png_data).ok
       /\ Len(t) >= 3
       /\ t[1] = IHDR
       /\ t[Len(t)] = IEND
       /\ \A i \in 2..(Len(t) - 1) : t[i] = IDAT

C2_Witness ==
  /\ Encoded /\ width = 2 /\ height = 1
  /\ ChunkTypes(png_data) = << IHDR, IDAT, IEND >>

\* C3: every block of the buffer is a 4-byte big-endian length equal to
\* the payload's length alone, the 4-byte tag, the payload, and a CRC-32
\* that is the one of (tag + payload), not the one of the payload alone nor
\* the one of the length field; this holds for the empty IEND as well.
C3_Framing ==
  Encoded =>
    LET f == FileChunks(png_data)
    IN /\ f.ok
       /\ \A i \in 1..Len(f.chunks) :
            LET c == f.chunks[i]
            IN /\ c.type \in {IHDR, IDAT, IEND}
               /\ ReadU32(c.length, 1) = Len(c.data)
               /\ c.crc = crc32(c.type \o c.data)
               /\ c.crc # crc32(c.data)
               /\ c.crc # crc32(c.length)
       /\ \E i \in 1..Len(f.chunks) :
            /\ f.chunks[i].type = IEND
            /\ f.chunks[i].data = <<>>
            /\ f.chunks[i].length = << 0, 0, 0, 0 >>

C3_Witness ==
  /\ Encoded /\ width = 1 /\ height = 2
  /\ Len(FileChunks(png_data).chunks) = 3
  /\ FileChunks(png_data).chunks[3].crc = << 174, 66, 96, 130 >>

\* C4: the header block has a 13-byte payload: width and height as given,
\* big-endian on 32 bits, then bit depth 8, colour type 2, compression 0,
\* filter 0, interlace 0.
C4_Header ==
  Encoded =>
    LET f == FileChunks(png_data)
    IN /\ f.ok
       /\ Len(f.chunks) >= 1
       /\ f.chunks[1].type = IHDR
       /\ Len(f.chunks[1].data) = 13
       /\ ReadU32(f.chunks[1].data, 1) = width
       /\ ReadU32(f.chunks[1].data, 5) = height
       /\ SubSeq(f.chunks[1].data, 9, 13) = << 8, 2, 0, 0, 0 >>

C4_Witness ==
  /\ Encoded /\ width = 1 /\ height = 2
  /\ FileChunks(png_data).chunks[1].data = << 0, 0, 0, 1, 0, 0, 0, 2, 8, 2, 0, 0, 0 >>

\* C5: the data handed to deflate is height scanlines, each a filter byte 0
\* and then width pixels of the three bytes r, g, b: height*(1 + 3*width)
\* bytes, a 0 at every offset y*(1 + 3*width); and it is compressed at
\* level 9.
C5_Scanlines ==
  Encoded =>
    LET payload == IdatPayload(FileChunks(png_data).chunks, 1)
        raw == Inflate(payload)
        stride == 1 + (3 * width)
    IN /\ raw.ok
       /\ Len(raw.data) = height * stride
       /\ \A y \in 0..(height - 1) :
            /\ raw.data[(y * stride) + 1] = 0
            /\ \A x \in 0..(width - 1) :
                 SubSeq(raw.data, (y * stride) + (3 * x) + 2,
                        (y * stride) + (3 * x) + 4) = bg
       /\ ZlibLevelClass(payload) = 3
       /\ payload = compress(raw.data, 9)

C5_Witness ==
  /\ Encoded /\ width = 2 /\ height = 2 /\ bg = << 137, 0, 255 >>
  /\ Inflate(IdatPayload(FileChunks(png_data).chunks, 1)).data
       = << 0, 137, 0, 255, 137, 0, 255, 0, 137, 0, 255, 137, 0, 255 >>

(***************************************************************************)
(* Properties of a run of the script, checked under Spec.                  *)
(***************************************************************************)
\* The strategies in the order the code holds them.
Strategies == << "pil", "rsvg", "qlmanage", "native" >>

Rank(st) == CHOOSE i \in 1..4 : Strategies[i] = st

Attempted(st) == st \in Range(attempts)

\* The command line is malformed: too few arguments, or a number that is
\* no integer.
Malformed == Len(argv) < 10 \/ \E i \in 3..10 : ~IntOk(argv[i])

\* Exceptions that a converter's run raises.
ConverterErrors == {"CalledProcessError", "PermissionError", "TimeoutExpired"}

\* C6 (as claimed): with the drawing library missing, once the converters
\* are run no failure of a converter surfaces as an error and the run finishes with a PNG at
\* output_path, whatever the converters do.
C6_Claim ==
  (pil_available = "no" /\ width > 0 /\ height > 0 /\ Attempted("rsvg")) =>
    /\ error \notin ConverterErrors
    /\ pc \in {"done", "exited"} =>
         /\ pc = "done"
         /\ error = "none"
         /\ Exists(output_path)
         /\ fs[output_path].kind = "png"

\* C7 (as claimed): on every malformed command line the script prints the
\* usage message and exits with a nonzero status, without calling
\* generate_background and without writing a file.
C7_Claim ==
  (Malformed /\ pc # "main") =>
    /\ pc = "exited"
    /\ "Usage" \in Range(stdout)
    /\ exit_status \notin {0, NoExit}
    /\ attempts = <<>>
    /\ fs = NoFiles

\* The buffer is whole: the signature, then blocks up to the end marker.
Whole(buf) ==
  /\ FileChunks(buf).ok
  /\ Len(ChunkTypes(buf)) >= 3
  /\ ChunkTypes(buf)[Len(ChunkTypes(buf))] = IEND

\* C8: create_png_native builds the whole buffer before it opens the
\* output, opens it once and writes the whole buffer in one write; when
\* building the buffer fails the output is not touched; one file is written
\* per call.
C8_WholeBufferOnce ==
  /\ opens <= 1
  /\ Len(writes) <= 1
  /\ opens > 0 => Whole(png_data)
  /\ \A i \in 1..Len(writes) : writes[i] = png_data /\ opens = 1
  /\ error = "struct.error" =>
       /\ opens = 0 /\ writes = <<>>
       /\ \A q \in DOMAIN fs : fs[q].by # "native"
  /\ \A q \in DOMAIN fs :
       fs[q].by = "native" =>
         /\ q = output_path
         /\ IF Len(writes) = 0 THEN fs[q] = File("empty", "native", <<>>)
            ELSE fs[q] = File("png", "native", png_data)
  /\ (pc \in {"cleanup", "done"} /\ Attempted("native")) => Len(writes) = 1

C8_Witness ==
  /\ pc = "done" /\ opens = 1 /\ Len(writes) = 1
  /\ Exists(output_path)
  /\ fs[output_path] = File("png", "native", png_data)
  /\ Whole(png_data)

\* C9: the strategies are tried in the order library, rsvg-convert,
\* qlmanage, native encoder, each at most once; one is tried only if every
\* earlier one was tried and failed; the native encoder runs only when the
\* library is missing and neither converter produced the output.
C9_Order ==
  /\ \A i \in 1..Len(attempts) : \A j \in 1..Len(attempts) :
       i < j => Rank(attempts[i]) < Rank(attempts[j])
  /\ \A i \in 1..Len(attempts) : \A k \in 1..(Rank(attempts[i]) - 1) :
       Attempted(Strategies[k]) /\ Strategies[k] \in failed
  /\ Attempted("native") =>
       /\ pil_available = "no"
       /\ ~converted
       /\ \A q \in DOMAIN fs : fs[q].by \notin {"rsvg", "qlmanage", "pil"}

C9_Witness ==
  /\ pc = "done"
  /\ attempts = << "pil", "rsvg", "qlmanage", "native" >>

\* C10 (as claimed): when generate_background_native returns, the SVG is
\* gone and the PNG is at output_path; the SVG's path differs from
\* output_path and lies in the same directory.
C10_Claim ==
  (pc = "done" /\ pil_available = "no") =>
    /\ svg_path # output_path
    /\ dirname(svg_path) = dirname(output_path)
    /\ ~Exists(svg_path)
    /\ Exists(output_path)
    /\ fs[output_path].kind = "png"

============================================================================
